---- MODULE Spec2Model ----
(***************************************************************************)
(* RSASSA-PSS as implemented in src/pss.rs: the 4-byte MGF1 counter, the   *)
(* MGF1 mask generator, the EMSA-PSS encoder and verifier, and the sign /  *)
(* verify orchestration around the external modular exponentiation.        *)
(*                                                                         *)
(* Conventions.  A byte is a number in 0..255 and a byte string (&[u8],    *)
(* Vec<u8>) is a sequence of bytes; Rust's index k is the sequence's index *)
(* k + 1.  A usize is an integer; a negative integer v stands for the      *)
(* wrapped value 2^64 + v that a release build computes where a debug      *)
(* build panics.  Option<usize> is a sequence: << >> is None, <<k>> is     *)
(* Some(k).  The digest type parameter H is given by its output size hl.   *)
(* Every function returns a record whose field res is "Ok", the name of    *)
(* the Error variant, or "Panic" when the call aborts.                     *)
(***************************************************************************)
EXTENDS Integers, Sequences, FiniteSets, TLC

VARIABLES build, call

vars == <<build, call>>

(***************************************************************************)
(* Bounds of the model.                                                    *)
(***************************************************************************)
\* largest digest output size tried for the type parameter H
MaxHLen == 2
\* longest encoded message tried on emsa_pss_encode / emsa_pss_verify
MaxEmLen == 5
\* longest salt handed to emsa_pss_encode
MaxSaltLen == 2
\* longest buffer handed to mgf1_xor
MaxOutLen == 5
\* most successive increments of one counter
MaxIncs == 3
\* longest signature handed to verify that no sign call produced
MaxSigLen == 5

(***************************************************************************)
(* Bytes.                                                                  *)
(***************************************************************************)
Byte == 0..255

RECURSIVE BitsAnd(_, _, _)
BitsAnd(a, b, n) ==
    IF n = 0 THEN 0
    ELSE (a % 2) * (b % 2) + 2 * BitsAnd(a \div 2, b \div 2, n - 1)

RECURSIVE BitsXor(_, _, _)
BitsXor(a, b, n) ==
    IF n = 0 THEN 0
    ELSE (((a % 2) + (b % 2)) % 2) + 2 * BitsXor(a \div 2, b \div 2, n - 1)

\* u8 & u8
And8(a, b) == BitsAnd(a, b, 8)

\* u8 ^ u8
Xor8(a, b) == BitsXor(a, b, 8)

Pow2(k) == CASE k = 0 -> 1 [] k = 1 -> 2 [] k = 2 -> 4 [] k = 3 -> 8
             [] k = 4 -> 16 [] k = 5 -> 32 [] k = 6 -> 64 [] k = 7 -> 128

\* The builds of the crate: "debug" has overflow checks, "release" has none.
Builds == {"debug", "release"}

\* u8 << usize.  A shift by 8 or more overflows: a debug build panics (the
\* result is then -1 here), a release build shifts by the amount modulo 8.
Shl8(b, a, k) ==
    IF k >= 0 /\ k < 8 THEN (a * Pow2(k)) % 256
    ELSE IF b = "debug" THEN -1
    ELSE (a * Pow2(k % 8)) % 256

\* u8 >> usize, with the same overflow rule.
Shr8(b, a, k) ==
    IF k >= 0 /\ k < 8 THEN a \div Pow2(k)
    ELSE IF b = "debug" THEN -1
    ELSE a \div Pow2(k % 8)

Zeros(n) == [k \in 1..n |-> 0]

(***************************************************************************)
(* The digest H: a deterministic function from byte strings to hl bytes.   *)
(* The crate takes it as a type parameter and uses it as a black box; the  *)
(* model fixes one mixing function per output size.                        *)
(***************************************************************************)
RECURSIVE HashFold(_, _, _)
HashFold(data, i, acc) ==
    IF i > Len(data) THEN acc
    ELSE HashFold(data, i + 1, (acc * 29 + data[i] * 7 + i * 13 + 101) % 256)

\* H::new(); input(data); result()
Hash(hl, data) ==
    [j \in 1..hl |-> HashFold(data, 1, (j * 83 + Len(data) * 59 + 17) % 256)]

(***************************************************************************)
(* inc_counter                                                             *)
(***************************************************************************)
\* inc_counter without the carry out of the lowest byte
inc_counter_no_carry(counter) ==
    IF counter[4] # 255 THEN [counter EXCEPT ![4] = @ + 1]
    ELSE [counter EXCEPT ![4] = 0]

inc_counter(counter) ==
    IF counter[4] # 255 THEN [counter EXCEPT ![4] = @ + 1]
    ELSE IF counter[3] # 255 THEN [counter EXCEPT ![4] = 0, ![3] = @ + 1]
    ELSE IF counter[2] # 255 THEN [counter EXCEPT ![4] = 0, ![3] = 0, ![2] = @ + 1]
    ELSE IF counter[1] # 255
         THEN [counter EXCEPT ![4] = 0, ![3] = 0, ![2] = 0, ![1] = @ + 1]
    ELSE <<0, 0, 0, 0>>

(***************************************************************************)
(* mgf1_xor                                                                *)
(***************************************************************************)
\* the inner loop: out[i] ^= digest_output[j] while both indices are in range
RECURSIVE mgf1_inner(_, _, _, _)
mgf1_inner(out, digest_output, i, j) ==
    IF j >= Len(digest_output) \/ i >= Len(out) THEN [out |-> out, i |-> i]
    ELSE mgf1_inner([out EXCEPT ![i + 1] = Xor8(@, digest_output[j + 1])],
                    digest_output, i + 1, j + 1)

\* the outer loop; log collects the inputs of the successive digest runs
RECURSIVE mgf1_loop(_, _, _, _, _, _)
mgf1_loop(hl, out, seed, counter, i, log) ==
    IF ~(i < Len(out)) THEN [out |-> out, log |-> log]
    ELSE LET digest_input == seed \o counter
             step == mgf1_inner(out, Hash(hl, digest_input), i, 0)
         IN mgf1_loop(hl, step.out, seed, inc_counter(counter), step.i,
                      Append(log, digest_input))

\* mgf1_xor with the counter started at one
mgf1_xor_from_one(hl, out, seed) ==
    mgf1_loop(hl, out, seed, <<0, 0, 0, 1>>, 0, << >>)

mgf1_xor(hl, out, seed) == mgf1_loop(hl, out, seed, <<0, 0, 0, 0>>, 0, << >>)

(***************************************************************************)
(* emsa_pss_encode                                                         *)
(***************************************************************************)
\* let prefix = [0u8; 8]
Prefix == Zeros(8)

\* hash.input(&prefix); hash.input(m_hash); hash.input(salt); hash.result()
pss_hash(hl, m_hash, salt) == Hash(hl, Prefix \o m_hash \o salt)

\* no leading bit cleared
top_mask_none(b, em_len, em_bits) == 255

\* 0xFF >> (8 * em_len - em_bits): the mask that clears the leading bits
top_mask(b, em_len, em_bits) == Shr8(b, 255, 8 * em_len - em_bits)

\* db as the encoder fills it before masking: the bytes of em it leaves
\* alone, 0x01 at em_len - s_len - h_len - 2, then the salt
encode_db(em, em_len, hl, salt) ==
    LET s_len == Len(salt)
        db_len == em_len - s_len - hl - 2 + 1 + s_len
    IN [k \in 1..db_len |->
           IF k - 1 < em_len - s_len - hl - 2 THEN em[k]
           ELSE IF k - 1 = em_len - s_len - hl - 2 THEN 1
           ELSE salt[k - 1 - (em_len - s_len - hl - 1) + 1]]

emsa_pss_encode(b, hl, em, m_hash, em_bits, salt) ==
    LET h_len == hl
        s_len == Len(salt)
        em_len == (em_bits + 7) \div 8
    IN  IF Len(m_hash) # h_len THEN [res |-> "InputNotHashed", em |-> em]
        ELSE IF em_len < h_len + s_len + 2 THEN [res |-> "Internal", em |-> em]
        ELSE IF Len(em) # em_len THEN [res |-> "Internal", em |-> em]
        ELSE LET h == pss_hash(hl, m_hash, salt)
                 masked == mgf1_xor(hl, encode_db(em, em_len, hl, salt), h).out
                 mask == top_mask(b, em_len, em_bits)
                 db == [masked EXCEPT ![1] = And8(@, mask)]
             IN  IF mask < 0 THEN [res |-> "Panic", em |-> em]
                 ELSE [res |-> "Ok", em |-> db \o h \o <<188>>]

(***************************************************************************)
(* emsa_pss_verify                                                         *)
(***************************************************************************)
\* A result of emsa_pss_verify: res, the step (in the numbering of the
\* function's comments) at which it returned, and the salt it recovered.
Rejected(step) ==
    [res |-> "Verification", step |-> step, s_len |-> -1, salt |-> << >>]

Aborted(step) == [res |-> "Panic", step |-> step, s_len |-> -1, salt |-> << >>]

\* db[0] & (0xFF << (8 - (8 * em_len - em_bits))); -1 when the build panics
\* on the shift or on one of the subtractions
leading_bits(b, db0, em_len, em_bits) ==
    LET z == 8 * em_len - em_bits
        mask == Shl8(b, 255, 8 - z)
    IN  IF (b = "debug" /\ (z < 0 \/ 8 - z < 0)) \/ mask < 0 THEN -1
        ELSE And8(db0, mask)

\* the try_fold over (0..=em_len - (h_len + 2)).rev(), from i downward; state
\* is << >> for None and <<i>> for Some(i)
RECURSIVE scan_s_len(_, _, _, _, _)
scan_s_len(db, em_len, hl, i, state) ==
    IF i < 0 THEN [res |-> "Ok", state |-> state]
    ELSE LET byte == db[em_len - hl - i - 2 + 1]
         IN  IF state # << >> THEN scan_s_len(db, em_len, hl, i - 1, state)
             ELSE IF byte = 1 THEN scan_s_len(db, em_len, hl, i - 1, <<i>>)
             ELSE IF byte = 0 THEN scan_s_len(db, em_len, hl, i - 1, << >>)
             ELSE [res |-> "Verification", state |-> << >>]

\* the salt length: [res, s_len].  With Some(s_len) the padding length
\* em_len - h_len - s_len - 2 underflows when s_len is too large: a debug
\* build panics on the subtraction, a release build on the slice db[..k]
\* whose end is the wrapped value.
salt_length(b, db, em_len, hl, s_len) ==
    IF s_len = << >>
    THEN LET r == scan_s_len(db, em_len, hl, em_len - (hl + 2), << >>)
         IN  IF r.res # "Ok" \/ r.state = << >>
             THEN [res |-> "Verification", s_len |-> -1]
             ELSE [res |-> "Ok", s_len |-> r.state[1]]
    ELSE LET k == em_len - hl - s_len[1] - 2
         IN  IF k < 0 \/ k > Len(db) THEN [res |-> "Panic", s_len |-> -1]
             ELSE IF \E e \in 1..k : db[e] # 0
             THEN [res |-> "Verification", s_len |-> -1]
             ELSE IF k >= Len(db) THEN [res |-> "Panic", s_len |-> -1]
             ELSE IF db[k + 1] # 1 THEN [res |-> "Verification", s_len |-> -1]
             ELSE [res |-> "Ok", s_len |-> s_len[1]]

emsa_pss_verify(b, hl, m_hash, em, em_bits, s_len) ==
    LET h_len == hl
        em_len == Len(em)
    IN  IF Len(m_hash) # h_len THEN Rejected(2)
        ELSE IF em_len < h_len + 2 THEN Rejected(3)
        ELSE IF em[em_len] # 188 THEN Rejected(4)
        ELSE LET db_len == em_len - h_len - 1
                 maskedDB == SubSeq(em, 1, db_len)
                 h == SubSeq(em, db_len + 1, db_len + h_len)
                 lead == leading_bits(b, maskedDB[1], em_len, em_bits)
                 unmasked == mgf1_xor(hl, maskedDB, h).out
                 mask == top_mask(b, em_len, em_bits)
                 db == [unmasked EXCEPT ![1] = And8(@, mask)]
                 sl == salt_length(b, db, em_len, hl, s_len)
                 salt == SubSeq(db, db_len - sl.s_len + 1, db_len)
                 h0 == pss_hash(hl, m_hash, salt)
             IN  IF lead < 0 THEN Aborted(6)
                 ELSE IF lead # 0 THEN Rejected(6)
                 ELSE IF mask < 0 THEN Aborted(9)
                 ELSE IF sl.res = "Panic" THEN Aborted(10)
                 ELSE IF sl.res # "Ok" THEN Rejected(10)
                 ELSE [res |-> IF h0 = h THEN "Ok" ELSE "Verification",
                       step |-> 14, s_len |-> sl.s_len, salt |-> salt]

(***************************************************************************)
(* Big integers (num_bigint::BigUint) and keys.                            *)
(***************************************************************************)
\* BigUint::bits
RECURSIVE Bits(_)
Bits(x) == IF x = 0 THEN 0 ELSE 1 + Bits(x \div 2)

\* BigUint::from_bytes_be
RECURSIVE from_bytes_be(_)
from_bytes_be(bytes) ==
    IF bytes = << >> THEN 0
    ELSE 256 * from_bytes_be(SubSeq(bytes, 1, Len(bytes) - 1)) + bytes[Len(bytes)]

\* BigUint::to_bytes_be: no leading zero byte, and one zero byte for zero
RECURSIVE to_bytes_be(_)
to_bytes_be(x) ==
    IF x < 256 THEN <<x>> ELSE Append(to_bytes_be(x \div 256), x % 256)

\* A key pair is its modulus n and the secret d that fixes the private-key
\* permutation of 0..n-1; the public half of the pair undoes it.
key_n(key) == key.n

\* internals::decrypt_and_check: fails on an integer that is not below the
\* modulus; blinding changes nothing in the result
decrypt_and_check(blind, key, m) ==
    IF m >= key.n THEN [res |-> "Decryption", c |-> 0]
    ELSE [res |-> "Ok",
          c |-> IF m >= key.n - key.d THEN m - (key.n - key.d) ELSE m + key.d]

\* internals::encrypt: the inverse permutation, on the integer modulo n
encrypt(key, s) ==
    LET c == s % key.n
    IN  IF c >= key.d THEN c - key.d ELSE c + (key.n - key.d)

\* algorithms::copy_with_left_pad: src at the right end of dest, zeros before;
\* aborts when src is longer than dest
copy_with_left_pad(dest, src) ==
    IF Len(src) > Len(dest) THEN [res |-> "Panic", buf |-> dest]
    ELSE [res |-> "Ok", buf |-> Zeros(Len(dest) - Len(src)) \o src]

(***************************************************************************)
(* sign, sign_pss_with_salt                                                *)
(***************************************************************************)
NoSig == [sig |-> << >>, em |-> << >>, m |-> -1]

sign_pss_with_salt(b, hl, key, hashed, salt, blind) ==
    LET n_bits == Bits(key_n(key))
        em0 == Zeros(((n_bits - 1) + 7) \div 8)
        enc == emsa_pss_encode(b, hl, em0, hashed, n_bits - 1, salt)
        m == from_bytes_be(enc.em)
        dec == decrypt_and_check(blind, key, m)
        c == to_bytes_be(dec.c)
        s == copy_with_left_pad(Zeros((n_bits + 7) \div 8), c)
    IN  IF enc.res # "Ok" THEN [res |-> enc.res] @@ NoSig
        ELSE IF dec.res # "Ok" THEN [res |-> dec.res, sig |-> << >>, em |-> enc.em, m |-> m]
        ELSE [res |-> s.res, sig |-> s.buf, em |-> enc.em, m |-> m]

\* salt_len.unwrap_or_else(|| (n_bits + 7) / 8 - 2 - H::output_size()); a
\* negative value is an underflow of the subtraction
sign_salt_len(hl, key, salt_len) ==
    IF salt_len # << >> THEN salt_len[1]
    ELSE (Bits(key_n(key)) + 7) \div 8 - 2 - hl

\* rnd is what rng.fill writes into the salt.  When the default salt length
\* underflows, a debug build panics on the subtraction and a release build
\* on the allocation of a vector of the wrapped length.
sign(b, hl, rnd, key, hashed, salt_len, blind) ==
    LET sl == sign_salt_len(hl, key, salt_len)
    IN  IF sl < 0 THEN [res |-> "Panic"] @@ NoSig
        ELSE sign_pss_with_salt(b, hl, key, hashed, SubSeq(rnd, 1, sl), blind)

(***************************************************************************)
(* verify                                                                  *)
(***************************************************************************)
\* only a signature that is too long is turned away
sig_too_long(n_bits, sig) == Len(sig) > (n_bits + 7) \div 8

\* sig.len() != (n_bits + 7) / 8
sig_len_differs(n_bits, sig) == Len(sig) # (n_bits + 7) \div 8

\* calls lists what verify invoked before it returned
verify(b, hl, key, hashed, sig) ==
    LET n_bits == Bits(key_n(key))
        s == from_bytes_be(sig)
        m == to_bytes_be(encrypt(key, s))
        em_bits == n_bits - 1
        em_len == (em_bits + 7) \div 8
        em == copy_with_left_pad(Zeros(em_len), m)
        r == emsa_pss_verify(b, hl, hashed, em.buf, em_bits, << >>)
    IN  IF sig_len_differs(n_bits, sig)
        THEN [calls |-> << >>] @@ Rejected(0)
        ELSE IF em_len < Len(m)
        THEN [calls |-> <<"encrypt">>] @@ Rejected(0)
        ELSE [calls |-> <<"encrypt", "emsa_pss_verify">>] @@ r

(***************************************************************************)
(* The inputs tried.                                                       *)
(***************************************************************************)
RECURSIVE SeqsOfLen(_, _)
SeqsOfLen(S, n) ==
    IF n = 0 THEN {<< >>}
    ELSE {Append(q, x) : q \in SeqsOfLen(S, n - 1), x \in S}

SeqsUpTo(S, n) == UNION {SeqsOfLen(S, k) : k \in 0..n}

HashSizes == 1..MaxHLen

\* counters around every carry
CounterStarts == SeqsOfLen({0, 1, 254, 255}, 4)

\* message hashes of the right and of a wrong length
Hasheds == SeqsUpTo({60, 240}, MaxHLen + 1)

UniformHasheds == {[k \in 1..n |-> x] : n \in 0..(MaxHLen + 1), x \in {60, 240}}

\* salts that begin with or contain 0x00 and 0x01
Salts == SeqsUpTo({0, 1, 158}, MaxSaltLen)

\* em_bits with 0, 1, 4 and 7 unused leading bits in the first byte
EmBitsSet == {8 * len - z : len \in 1..MaxEmLen, z \in {0, 1, 4, 7}}

\* s_len of emsa_pss_verify: None, and Some(k) also for k too large
SLenOpts == {<< >>} \cup {<<k>> : k \in 0..MaxEmLen}

\* encoded messages no encoder produced
ArbitraryEms(len) ==
    IF len = 0 THEN {<< >>}
    ELSE IF len = 1 THEN {<<188>>, <<0>>}
    ELSE {<<first>> \o mid \o <<last>> :
             first \in {0, 1, 64, 128, 255},
             mid \in SeqsOfLen({0, 1}, len - 2),
             last \in {188, 0}}

\* moduli of 16, 24, 25 and 30 bits, each with the secret of its permutation
Keys == {[n |-> 50595, d |-> 20411],
         [n |-> 11846135, d |-> 7340033],
         [n |-> 27439045, d |-> 9123457],
         [n |-> 792612187, d |-> 305419896]}

SaltLenOpts == {<< >>} \cup {<<k>> : k \in 0..(MaxSaltLen + 1)}

ArbitrarySigs == SeqsUpTo({0, 90}, MaxSigLen)

(***************************************************************************)
(* The state: the build of the crate and the record of the latest call,    *)
(* its arguments and what it returned.  The core keeps nothing between     *)
(* calls: a call starts when the buffers of the one before are dropped,    *)
(* or works on what the one before returned.                               *)
(***************************************************************************)
Init ==
    /\ build \in Builds
    /\ call = [op |-> "none"]

\* a counter is created
NewCounter ==
    /\ call.op = "none"
    /\ \E start \in CounterStarts :
          call' = [op |-> "inc_counter", start |-> start, incs |-> 0,
                   counter |-> start]
    /\ UNCHANGED build

\* the counter of the latest call is incremented once more
IncCounter ==
    /\ call.op = "inc_counter"
    /\ call.incs < MaxIncs
    /\ call' = [call EXCEPT !.counter = inc_counter(@), !.incs = @ + 1]
    /\ UNCHANGED build

Mgf1Xor ==
    /\ call.op = "none"
    /\ \E hl \in HashSizes, out \in SeqsUpTo({0, 255}, MaxOutLen),
          seed \in SeqsUpTo({17, 238}, 2) :
          LET r == mgf1_xor(hl, out, seed)
          IN  call' = [op |-> "mgf1_xor", hl |-> hl, out_before |-> out,
                       seed |-> seed, out |-> r.out, log |-> r.log]
    /\ UNCHANGED build

\* emsa_pss_encode on the zeroed buffer sign_pss_with_salt hands it
Encode ==
    /\ call.op = "none"
    /\ \E hl \in HashSizes, em_bits \in EmBitsSet, m_hash \in Hasheds,
          salt \in Salts :
          LET r == emsa_pss_encode(build, hl, Zeros((em_bits + 7) \div 8),
                                   m_hash, em_bits, salt)
          IN  call' = [op |-> "emsa_pss_encode", hl |-> hl, em_bits |-> em_bits,
                       m_hash |-> m_hash, salt |-> salt, res |-> r.res,
                       em |-> r.em]
    /\ UNCHANGED build

PssVerifyCall(encoded, hl, m_hash, em, em_bits, s_len, enc_salt) ==
    [op |-> "emsa_pss_verify", encoded |-> encoded, hl |-> hl,
     m_hash |-> m_hash, em |-> em, em_bits |-> em_bits, opt |-> s_len,
     enc_salt |-> enc_salt]
    @@ emsa_pss_verify(build, hl, m_hash, em, em_bits, s_len)

\* emsa_pss_verify on what the latest emsa_pss_encode produced
PssVerifyEncoded ==
    /\ call.op = "emsa_pss_encode"
    /\ call.res = "Ok"
    /\ \E s_len \in SLenOpts :
          call' = PssVerifyCall(TRUE, call.hl, call.m_hash, call.em,
                                call.em_bits, s_len, call.salt)
    /\ UNCHANGED build

\* emsa_pss_verify on any encoded message of the length em_bits asks for
PssVerify ==
    /\ call.op = "none"
    /\ \E hl \in HashSizes, em_bits \in EmBitsSet, m_hash \in UniformHasheds,
          s_len \in {<< >>, <<0>>, <<MaxEmLen>>} :
          \E em \in ArbitraryEms((em_bits + 7) \div 8) :
             call' = PssVerifyCall(FALSE, hl, m_hash, em, em_bits, s_len, << >>)
    /\ UNCHANGED build

Sign ==
    /\ call.op = "none"
    /\ \E hl \in HashSizes, key \in Keys, hashed \in Hasheds,
          salt_len \in SaltLenOpts, blind \in BOOLEAN :
          LET sl == sign_salt_len(hl, key, salt_len)
          IN  \E rnd \in SeqsOfLen({0, 1, 158}, IF sl < 0 THEN 0 ELSE sl) :
                 call' = [op |-> "sign", hl |-> hl, key |-> key,
                          hashed |-> hashed, salt_len |-> salt_len,
                          blind |-> blind, salt |-> rnd]
                         @@ sign(build, hl, rnd, key, hashed, salt_len, blind)
    /\ UNCHANGED build

VerifyCall(signed, hl, key, hashed, sig, salt_len) ==
    [op |-> "verify", signed |-> signed, hl |-> hl, key |-> key,
     hashed |-> hashed, sig |-> sig, salt_len |-> salt_len]
    @@ verify(build, hl, key, hashed, sig)

\* verify on the signature the latest sign returned, same key and hash
VerifySigned ==
    /\ call.op = "sign"
    /\ call.res = "Ok"
    /\ call' = VerifyCall(TRUE, call.hl, call.key, call.hashed, call.sig,
                          call.salt_len)
    /\ UNCHANGED build

\* verify on any signature
Verify ==
    /\ call.op = "none"
    /\ \E hl \in HashSizes, key \in Keys, hashed \in UniformHasheds,
          sig \in ArbitrarySigs :
          call' = VerifyCall(FALSE, hl, key, hashed, sig, << >>)
    /\ UNCHANGED build

\* the caller drops the buffers of the latest call
Return ==
    /\ call.op # "none"
    /\ call' = [op |-> "none"]
    /\ UNCHANGED build

Next ==
    \/ Return
    \/ NewCounter
    \/ IncCounter
    \/ Mgf1Xor
    \/ Encode
    \/ PssVerifyEncoded
    \/ PssVerify
    \/ Sign
    \/ VerifySigned
    \/ Verify

Spec == Init /\ [][Next]_vars

(***************************************************************************)
(* Properties.                                                             *)
(***************************************************************************)
IsSign == call.op = "sign"
IsVerify == call.op = "verify"
IsEncode == call.op = "emsa_pss_encode"
IsPssVerify == call.op = "emsa_pss_verify"

\* ceil(bits / 8)
ByteLen(bits) == (bits + 7) \div 8

\* C1: round trip: verify accepts the signature that sign returned for the
\* same key and hash with an explicit salt length.
RoundTrip ==
    (IsVerify /\ call.signed /\ call.salt_len # << >>) => call.res = "Ok"

\* C2: default salt length: with salt_len = None, sign succeeds for every key
\* whose modulus has at least h_len + 2 bytes and every hash of length h_len,
\* and verify accepts the signature.
DefaultSaltLenFits ==
    /\ (IsSign /\ call.salt_len = << >> /\ Len(call.hashed) = call.hl
           /\ ByteLen(Bits(call.key.n)) >= call.hl + 2)
        => call.res = "Ok"
    /\ (IsVerify /\ call.signed /\ call.salt_len = << >>) => call.res = "Ok"

\* C3: undifferentiated rejection: emsa_pss_verify returns Ok or
\* Err(Verification) on every input and never aborts.
PssVerifyOkOrVerification ==
    IsPssVerify => call.res \in {"Ok", "Verification"}

\* C4: length guard: on a signature whose length is not ceil(n_bits / 8),
\* verify returns Err(Verification) before it invokes anything.
LengthGuard ==
    (IsVerify /\ Len(call.sig) # ByteLen(Bits(call.key.n)))
    => (call.res = "Verification" /\ call.calls = << >>)

LengthGuardWitness ==
    /\ IsVerify
    /\ Len(call.sig) = ByteLen(Bits(call.key.n)) + 1
    /\ Len(call.hashed) = call.hl
    /\ call.res = "Verification"

\* C5: hash-length guard: with a hash whose length is not h_len, sign returns
\* Err(InputNotHashed) and verify returns Err(Verification).
HashLengthGuard ==
    /\ (IsSign /\ Len(call.hashed) # call.hl) => call.res = "InputNotHashed"
    /\ (IsVerify /\ Len(call.hashed) # call.hl) => call.res = "Verification"

\* C6: salt-length auto-discovery: on the output of a successful
\* emsa_pss_encode, emsa_pss_verify with None and with Some(s_len) both
\* return Ok and recover the encoder's salt.
AutoDiscoveryEquivalence ==
    (IsPssVerify /\ call.encoded
       /\ call.opt \in {<< >>, <<Len(call.enc_salt)>>})
    => (call.res = "Ok" /\ call.s_len = Len(call.enc_salt)
          /\ call.salt = call.enc_salt)

\* the counter as two 16-bit halves, high and low
Halves(c) == <<c[1] * 256 + c[2], c[3] * 256 + c[4]>>

\* <<hi, lo>> plus k, modulo 2^32
PlusMod32(v, k) ==
    <<(v[1] + (v[2] + k) \div 65536) % 65536, (v[2] + k) % 65536>>

\* C7: counter wraparound: k increments take a counter of value c to
\* (c + k) mod 2^32, FF FF FF FF to 00 00 00 00 included.
CounterIncrement ==
    call.op = "inc_counter"
    => (/\ Len(call.counter) = 4
        /\ \A k \in 1..4 : call.counter[k] \in Byte
        /\ Halves(call.counter) = PlusMod32(Halves(call.start), call.incs))

CounterIncrementWitness ==
    /\ call.op = "inc_counter"
    /\ call.start = <<255, 255, 255, 255>>
    /\ call.incs = 1
    /\ call.counter = <<0, 0, 0, 0>>

\* the z most significant bits of a byte, as a number
TopBits(x, z) == IF z = 0 THEN 0 ELSE x \div Pow2(8 - z)

\* C8: leading-bit check: emsa_pss_verify, once past the checks before it,
\* stops at the leading-bit check exactly when one of the z = 8 * em_len -
\* em_bits most significant bits of the first byte is set; never for z = 0.
LeadingBitCheck ==
    (IsPssVerify /\ call.step >= 6)
    => (call.step = 6
          <=> TopBits(call.em[1], 8 * Len(call.em) - call.em_bits) # 0)

\* C9: encoded block: a successful emsa_pss_encode leaves maskedDB || H' ||
\* 0xBC with the 8 * em_len - em_bits leading bits clear, and the integer
\* sign hands to the private-key primitive is below 2^em_bits and below the
\* modulus.
EncodedBlock ==
    /\ (IsEncode /\ call.res = "Ok")
        => LET em_len == ByteLen(call.em_bits)
           IN  /\ Len(call.em) = em_len
               /\ call.em[em_len] = 188
               /\ SubSeq(call.em, em_len - call.hl, em_len - 1)
                     = Hash(call.hl, Zeros(8) \o call.m_hash \o call.salt)
               /\ TopBits(call.em[1], 8 * em_len - call.em_bits) = 0
    /\ (IsSign /\ call.m >= 0)
        => LET n_bits == Bits(call.key.n)
           IN  /\ Len(call.em) = ByteLen(n_bits - 1)
               /\ call.m = from_bytes_be(call.em)
               /\ Bits(call.m) <= n_bits - 1
               /\ call.m < call.key.n

EncodedBlockWitness ==
    /\ IsSign
    /\ call.res = "Ok"
    /\ Len(call.salt) = 1
    /\ Len(call.em) = 4
    /\ call.em[4] = 188
    /\ call.m = from_bytes_be(call.em)
    /\ call.m > 0

\* the big-endian 4 bytes of n
BE32(n) ==
    <<(n \div 16777216) % 256, (n \div 65536) % 256, (n \div 256) % 256, n % 256>>

\* C10: MGF1 stream: mgf1_xor runs the digest ceil(L / h_len) times, the
\* n-th time over seed || BE32(n), and XORs byte k mod h_len of run
\* k div h_len into out[k], for every k < L.
Mgf1Stream ==
    call.op = "mgf1_xor"
    => LET L == Len(call.out_before)
       IN  /\ Len(call.out) = L
           /\ Len(call.log) = (L + call.hl - 1) \div call.hl
           /\ \A n \in 1..Len(call.log) :
                 call.log[n] = call.seed \o BE32(n - 1)
           /\ \A k \in 0..(L - 1) :
                 call.out[k + 1]
                   = Xor8(call.out_before[k + 1],
                          Hash(call.hl, call.seed \o BE32(k \div call.hl))
                            [(k % call.hl) + 1])

Mgf1StreamWitness ==
    /\ call.op = "mgf1_xor"
    /\ Len(call.out) = 3
    /\ call.hl = 2
    /\ Len(call.log) = 2
    /\ call.out # call.out_before

(***************************************************************************)
(* The shift in the leading-bit check of emsa_pss_verify overflows exactly *)
(* when em_bits is a multiple of 8.  Away from that case the properties    *)
(* above that depend on the check hold.                                    *)
(***************************************************************************)
UnusedBits == 8 * Len(call.em) - call.em_bits

\* C1 for the keys whose n_bits - 1 is no multiple of 8
RoundTripUnaligned ==
    (IsVerify /\ Bits(call.key.n) % 8 # 1) => RoundTrip

\* C6 for em_bits that is no multiple of 8
AutoDiscoveryUnaligned ==
    (IsPssVerify /\ UnusedBits # 0) => AutoDiscoveryEquivalence

\* C8 for em_bits that is no multiple of 8
LeadingBitCheckUnaligned ==
    (IsPssVerify /\ UnusedBits # 0) => LeadingBitCheck

====
